---- MODULE Spec2Model ----
(***************************************************************************)
(* Clarity Forge (src/app.py): the extraction -> structuring -> model      *)
(* client -> presenter pipeline of the Streamlit script, its memoized      *)
(* back-end functions and its retry loop.                                  *)
(*                                                                         *)
(* Document text is a sequence of one-character strings.  Model output is  *)
(* a sequence of lexemes (records [k, v]); Python values are records       *)
(* tagged by their type.                                                   *)
(***************************************************************************)
EXTENDS Integers, Sequences, FiniteSets, TLC

VARIABLES
    pc,               \* position of the script / of the function under call
    environ,          \* the GEMINI_API_KEY environment variable of the process
    json_error_is_request_exception, \* class of the error resp.json() raises
    remote_texts,     \* the texts the remote model can answer with
    requests_done,    \* script runs (uploads) handled so far by this process
    uploaded_file,    \* the upload of the current script run, or NoFile
    selected_language_name,
    extracted_text,   \* driver local, line 891
    structured_data,  \* driver local, line 895
    summary_md,       \* driver local, line 909
    ui,               \* user-visible messages of the current script run
    escaped,          \* an exception left a stage in the current script run
    cache_pdf, cache_ocr_pdf, cache_ocr_image,  \* st.cache_data, lines 27-51
    cache_agent,      \* st.cache_data of document_to_json_agent
    cache_api,        \* st.cache_resource of call_gemini_api
    engine_log,       \* reader / rasterizer / OCR invocations of this run
    agent_args,       \* arguments of the running document_to_json_agent call
    call_args,        \* arguments of the running call_gemini_api call
    caller,           \* who called call_gemini_api
    attempt,          \* loop variable of the retry loop
    http_log,         \* outcome class of each requests.post of this call
    sleeps,           \* time.sleep arguments of this call, in order
    raw,              \* value returned by call_gemini_api
    api_calls,        \* call_gemini_api calls made in this script run
    extractions,      \* history: [file, ocr_language, text] of each extraction
    posts_made,       \* history: requests.post count per call_gemini_api arguments
    fn_in, fn_arg, fn_out   \* a pure function under test: input, parameter, result

vars == << pc, environ, json_error_is_request_exception, remote_texts,
           requests_done,
           uploaded_file, selected_language_name, extracted_text,
           structured_data, summary_md, ui, escaped,
           cache_pdf, cache_ocr_pdf, cache_ocr_image, cache_agent, cache_api,
           engine_log, agent_args, call_args, caller, attempt, http_log,
           sleeps, raw, api_calls, extractions, posts_made,
           fn_in, fn_arg, fn_out >>

-----------------------------------------------------------------------------
(* Bounds of the model *)

MaxTextLen == 5        \* longest text given to _truncate_text_by_lines alone
MaxBudget == 4         \* largest max_chars given to it alone
MaxRetriesArg == 4     \* largest max_retries given to call_gemini_api alone
MaxCalls == 2          \* direct call_gemini_api calls in one process
MaxProseLen == 2       \* longest prose put before a JSON text
MaxRuns == 2           \* script runs (uploads) of one session

-----------------------------------------------------------------------------
(* Python strings as sequences of characters *)

\* Characters str.strip() and str.splitlines() treat specially.
WhiteSpace == {" ", "\t", "\n", "\r", "\f"}
LineBoundaries == {"\n", "\r", "\f"}

\* n copies of character c
RECURSIVE Rep(_, _)
Rep(c, n) == IF n <= 0 THEN <<>> ELSE <<c>> \o Rep(c, n - 1)

\* "".join(seq of texts)
RECURSIVE concat(_)
concat(ss) == IF ss = <<>> THEN <<>> ELSE Head(ss) \o concat(Tail(ss))

RECURSIVE lstrip(_)
lstrip(s) == IF s # <<>> /\ Head(s) \in WhiteSpace THEN lstrip(Tail(s)) ELSE s

RECURSIVE rstrip(_)
rstrip(s) ==
    IF s # <<>> /\ s[Len(s)] \in WhiteSpace
    THEN rstrip(SubSeq(s, 1, Len(s) - 1)) ELSE s

\* str.strip()
strip(s) == rstrip(lstrip(s))

\* str.splitlines(): break at \n, \r, \r\n, \f; no empty last line.
RECURSIVE splitlinesFrom(_, _, _)
splitlinesFrom(s, cur, acc) ==
    IF s = <<>> THEN (IF cur = <<>> THEN acc ELSE Append(acc, cur))
    ELSE IF Head(s) = "\r" /\ Len(s) >= 2 /\ s[2] = "\n"
         THEN splitlinesFrom(Tail(Tail(s)), <<>>, Append(acc, cur))
    ELSE IF Head(s) \in LineBoundaries
         THEN splitlinesFrom(Tail(s), <<>>, Append(acc, cur))
    ELSE splitlinesFrom(Tail(s), Append(cur, Head(s)), acc)

splitlines(s) == splitlinesFrom(s, <<>>, <<>>)

\* "\n".join(lines)
RECURSIVE joinNL(_)
joinNL(lines) ==
    IF lines = <<>> THEN <<>>
    ELSE IF Len(lines) = 1 THEN lines[1]
    ELSE lines[1] \o <<"\n">> \o joinNL(Tail(lines))

-----------------------------------------------------------------------------
(* _truncate_text_by_lines, lines 139-145 *)

\* "\n\n...(truncated)": U+2026 is one character.
TruncationMarker ==
    <<"\n", "\n", "U+2026", "(", "t", "r", "u", "n", "c", "a", "t", "e", "d", ")">>

\* A loop that appends the line before it tests the budget.
RECURSIVE TakeLinesLate(_, _, _, _)
TakeLinesLate(lines, out, count, max_chars) ==
    IF lines = <<>> THEN out
    ELSE IF count > max_chars THEN out
    ELSE TakeLinesLate(Tail(lines), Append(out, Head(lines)),
                       count + Len(Head(lines)) + 1, max_chars)

\* The for loop of lines 142-144: the lines kept.
RECURSIVE TakeLines(_, _, _, _)
TakeLines(lines, out, count, max_chars) ==
    IF lines = <<>> THEN out
    ELSE IF count + Len(Head(lines)) + 1 > max_chars THEN out
    ELSE TakeLines(Tail(lines), Append(out, Head(lines)),
                   count + Len(Head(lines)) + 1, max_chars)

_truncate_text_by_lines(text, max_chars) ==
    IF Len(text) <= max_chars THEN text
    ELSE joinNL(TakeLines(splitlines(text), <<>>, 0, max_chars)) \o TruncationMarker

DefaultMaxChars == 8000

-----------------------------------------------------------------------------
(* Python values *)

PyNone == [t |-> "None"]
PyText(chars) == [t |-> "text", chars |-> chars]    \* a str held as characters
PyStr(s) == [t |-> "str", s |-> s]                  \* a str held whole
PyNum(n) == [t |-> "num", n |-> n]                  \* n is the numeral
PyBool(b) == [t |-> "bool", b |-> b]
PyList(items) == [t |-> "list", items |-> items]
PyDict(m) == [t |-> "dict", m |-> m]                \* m: sequence of [key, val]

\* bool(v)
Truthy(v) ==
    CASE v.t = "None" -> FALSE
      [] v.t = "text" -> v.chars # <<>>
      [] v.t = "str"  -> v.s # ""
      [] v.t = "num"  -> v.n # "0"
      [] v.t = "bool" -> v.b
      [] v.t = "list" -> v.items # <<>>
      [] v.t = "dict" -> v.m # <<>>

HasKey(m, key) == \E i \in 1..Len(m) : m[i].key = key

\* dict.get(key, default)
DictGet(m, key, default) ==
    IF HasKey(m, key)
    THEN m[CHOOSE i \in 1..Len(m) : m[i].key = key].val
    ELSE default

\* d[key] = val: a key already present keeps its place
DictSet(m, key, val) ==
    IF HasKey(m, key)
    THEN [i \in 1..Len(m) |-> IF m[i].key = key THEN [key |-> key, val |-> val] ELSE m[i]]
    ELSE Append(m, [key |-> key, val |-> val])

-----------------------------------------------------------------------------
(* Model output as lexemes, and json.loads / json.dumps over them *)

P(c) == [k |-> "punct", v |-> c]       \* one of { } [ ] , :
S(s) == [k |-> "str", v |-> s]         \* a string literal, s its content
N(n) == [k |-> "num", v |-> n]         \* a number
L(w) == [k |-> "lit", v |-> w]         \* null, true, false
Ws(w) == [k |-> "ws", v |-> w]         \* a run of whitespace
Word(w) == [k |-> "word", v |-> w]     \* a word of prose

ParseFail == [ok |-> FALSE]
ParseOk(val, rest) == [ok |-> TRUE, val |-> val, rest |-> rest]

RECURSIVE SkipWs(_)
SkipWs(s) == IF s # <<>> /\ Head(s).k = "ws" THEN SkipWs(Tail(s)) ELSE s

RECURSIVE SkipWsEnd(_)
SkipWsEnd(s) ==
    IF s # <<>> /\ s[Len(s)].k = "ws"
    THEN SkipWsEnd(SubSeq(s, 1, Len(s) - 1)) ELSE s

\* str.strip() of a lexeme sequence
stripLex(s) == SkipWsEnd(SkipWs(s))

LitValue(w) ==
    CASE w = "null" -> PyNone
      [] w = "true" -> PyBool(TRUE)
      [] w = "false" -> PyBool(FALSE)

\* The JSON decoder: a value, then the members of an object or the
\* elements of an array up to the closing bracket.
RECURSIVE ParseValue(_), ParseMembers(_, _), ParseElements(_, _)
ParseValue(s0) ==
    LET s == SkipWs(s0) IN
    IF s = <<>> THEN ParseFail
    ELSE LET h == Head(s) IN
         CASE h.k = "str" -> ParseOk(PyStr(h.v), Tail(s))
           [] h.k = "num" -> ParseOk(PyNum(h.v), Tail(s))
           [] h.k = "lit" -> ParseOk(LitValue(h.v), Tail(s))
           [] h = P("{") ->
                LET r == SkipWs(Tail(s)) IN
                IF r # <<>> /\ Head(r) = P("}")
                THEN ParseOk(PyDict(<<>>), Tail(r))
                ELSE ParseMembers(r, <<>>)
           [] h = P("[") ->
                LET r == SkipWs(Tail(s)) IN
                IF r # <<>> /\ Head(r) = P("]")
                THEN ParseOk(PyList(<<>>), Tail(r))
                ELSE ParseElements(r, <<>>)
           [] OTHER -> ParseFail

\* s starts (after whitespace) at a member's key
ParseMembers(s0, m) ==
    LET s == SkipWs(s0) IN
    IF s = <<>> \/ Head(s).k # "str" THEN ParseFail
    ELSE LET key == Head(s).v
             c == SkipWs(Tail(s))
         IN IF c = <<>> \/ Head(c) # P(":") THEN ParseFail
            ELSE LET pv == ParseValue(Tail(c)) IN
                 IF ~pv.ok THEN ParseFail
                 ELSE LET r == SkipWs(pv.rest)
                          m2 == DictSet(m, key, pv.val)
                      IN IF r = <<>> THEN ParseFail
                         ELSE IF Head(r) = P("}") THEN ParseOk(PyDict(m2), Tail(r))
                         ELSE IF Head(r) = P(",") THEN ParseMembers(Tail(r), m2)
                         ELSE ParseFail

\* s starts at an element
ParseElements(s, items) ==
    LET pv == ParseValue(s) IN
    IF ~pv.ok THEN ParseFail
    ELSE LET r == SkipWs(pv.rest)
             items2 == Append(items, pv.val)
         IN IF r = <<>> THEN ParseFail
            ELSE IF Head(r) = P("]") THEN ParseOk(PyList(items2), Tail(r))
            ELSE IF Head(r) = P(",") THEN ParseElements(Tail(r), items2)
            ELSE ParseFail

\* json.loads(s): [ok, val]; not ok stands for the JSONDecodeError raised.
\* The whole text must be one value, whitespace around it allowed.
json_loads(s) ==
    LET pv == ParseValue(s) IN
    IF pv.ok /\ SkipWs(pv.rest) = <<>> THEN [ok |-> TRUE, val |-> pv.val]
    ELSE ParseFail

\* json.dumps(v, indent=2): the lexemes, with the whitespace runs the
\* indentation puts after brackets and commas.
RECURSIVE json_dumps(_), DumpMembers(_), DumpItems(_)
json_dumps(v) ==
    CASE v.t = "None" -> <<L("null")>>
      [] v.t = "bool" -> <<L(IF v.b THEN "true" ELSE "false")>>
      [] v.t = "str"  -> <<S(v.s)>>
      [] v.t = "num"  -> <<N(v.n)>>
      [] v.t = "list" ->
           IF v.items = <<>> THEN <<P("["), P("]")>>
           ELSE <<P("["), Ws("\n")>> \o DumpItems(v.items) \o <<Ws("\n"), P("]")>>
      [] v.t = "dict" ->
           IF v.m = <<>> THEN <<P("{"), P("}")>>
           ELSE <<P("{"), Ws("\n")>> \o DumpMembers(v.m) \o <<Ws("\n"), P("}")>>

DumpMembers(m) ==
    LET one == <<S(m[1].key), P(":"), Ws(" ")>> \o json_dumps(m[1].val) IN
    IF Len(m) = 1 THEN one
    ELSE one \o <<P(","), Ws("\n")>> \o DumpMembers(Tail(m))

DumpItems(items) ==
    IF Len(items) = 1 THEN json_dumps(items[1])
    ELSE json_dumps(items[1]) \o <<P(","), Ws("\n")>> \o DumpItems(Tail(items))

-----------------------------------------------------------------------------
(* _coerce_json, lines 128-137 *)

Opens(s) == {i \in 1..Len(s) : s[i] = P("{")}
Closes(s) == {i \in 1..Len(s) : s[i] = P("}")}
Min(I) == CHOOSE i \in I : \A j \in I : i <= j
Max(I) == CHOOSE i \in I : \A j \in I : i >= j

\* A search that stops at the first closing brace (a non-greedy \{.*?\}).
re_search_braces_lazy(s) ==
    IF \E i \in Opens(s) : \E j \in Closes(s) : i < j
    THEN LET i == Min({a \in Opens(s) : \E j \in Closes(s) : a < j})
         IN [found |-> TRUE, span |-> SubSeq(s, i, Min({j \in Closes(s) : j > i}))]
    ELSE [found |-> FALSE]

\* re.search(r"\{.*\}", s, re.DOTALL): the leftmost "{" that has a "}"
\* after it, up to the last "}" of the text (".*" is greedy).
re_search_braces(s) ==
    IF \E i \in Opens(s) : \E j \in Closes(s) : i < j
    THEN LET i == Min({a \in Opens(s) : \E j \in Closes(s) : a < j})
         IN [found |-> TRUE, span |-> SubSeq(s, i, Max(Closes(s)))]
    ELSE [found |-> FALSE]

\* The result and whether the "Failed to parse JSON" warning was shown.
\* s is PyNone or PyText(lexemes).
_coerce_json(s) ==
    IF ~Truthy(s) THEN [val |-> PyNone, warned |-> FALSE]
    ELSE LET json_match == re_search_braces(stripLex(s.chars))
             s2 == IF json_match.found THEN json_match.span ELSE s.chars
             r == json_loads(s2)
         IN IF r.ok THEN [val |-> r.val, warned |-> FALSE]
            ELSE [val |-> PyNone, warned |-> TRUE]

-----------------------------------------------------------------------------
(* json_to_readable, lines 179-189 *)

\* One element of `lines`: what it is and the value formatted into it.
Line(kind, v) == [kind |-> kind, v |-> v]

\* structured.get(key) / structured.get(key, default): only a dict has get.
HasGet(v) == v.t = "dict"

\* Iterating key_points for the bullets: a list yields its items; a number
\* or a bool cannot be iterated.  (No input of the model has a str or a
\* dict there.)
Iterable(v) == v.t = "list"

\* The value returned is [ok, lines]: ok = FALSE stands for the exception
\* raised (AttributeError: no .get; TypeError: key_points cannot be
\* iterated, or "\n".join meets an element that is no str).
json_to_readable(structured) ==
    IF ~Truthy(structured) THEN [ok |-> TRUE, lines |-> <<Line("text", PyStr("No data."))>>]
    ELSE IF ~HasGet(structured) THEN [ok |-> FALSE]
    ELSE LET m == structured.m
             title == DictGet(m, "document_title", PyNone)
             author == DictGet(m, "author", PyNone)
             date == DictGet(m, "date", PyNone)
             summary == DictGet(m, "summary", PyStr("U+2014"))
             kp == DictGet(m, "key_points", PyNone)
             head == (IF Truthy(title) THEN <<Line("###", title)>> ELSE <<>>)
                  \o (IF Truthy(author) THEN <<Line("**Author:**", author)>> ELSE <<>>)
                  \o (IF Truthy(date) THEN <<Line("**Date:**", date)>> ELSE <<>>)
                  \o <<Line("text", PyStr("\n#### Summary")), Line("text", summary)>>
         IN IF Truthy(kp) /\ ~Iterable(kp) THEN [ok |-> FALSE]
            ELSE IF summary.t # "str" THEN [ok |-> FALSE]
            ELSE [ok |-> TRUE,
                  lines |-> head \o
                     (IF Truthy(kp)
                      THEN <<Line("text", PyStr("\n#### Key Points"))>>
                           \o [i \in 1..Len(kp.items) |-> Line("-", kp.items[i])]
                      ELSE <<>>)]


-----------------------------------------------------------------------------
(* Uploads and the external engines (black boxes) *)

TextLayerThreshold == 50

\* What lies behind the bytes of each PDF of the model: the per-page text
\* of its text layer, or a file the reader cannot open.
PdfReader(file_bytes) ==
    CASE file_bytes = "pdf_text" ->       \* 53 characters once stripped
           [ok |-> TRUE, pages |-> << <<" ">> \o Rep("a", 30) \o <<"\n">>,
                                      Rep("b", 22) \o <<"\n">> >>]
      [] file_bytes = "pdf_51" ->         \* 51 characters once stripped
           [ok |-> TRUE, pages |-> << <<"\n">> \o Rep("a", 25),
                                      Rep("b", 26) \o <<" ", "\n">> >>]
      [] file_bytes = "pdf_50" ->         \* 50 once stripped, 53 unstripped
           [ok |-> TRUE, pages |-> << <<" ", "\n">> \o Rep("a", 25),
                                      Rep("b", 25) \o <<"\n">> >>]
      [] file_bytes = "pdf_scan" ->       \* a scan: pages without text
           [ok |-> TRUE, pages |-> << <<>>, <<"\n">> >>]
      [] OTHER -> [ok |-> FALSE]          \* fitz.open raises

PdfBytes == {"pdf_text", "pdf_51", "pdf_50", "pdf_scan", "pdf_corrupt"}

Uploads ==
    [type : {"application/pdf"}, bytes : PdfBytes, readable : {TRUE}]
    \cup [type : {"image/png"}, bytes : {"img_1"}, readable : {TRUE}]
    \cup [type : {"application/octet-stream"}, bytes : {"bin_1"}, readable : {TRUE}]
    \cup [type : {"application/pdf"}, bytes : {"pdf_text"}, readable : {FALSE}]

NoFile == [type |-> "none"]

\* ocr_language_options, line 879
ocr_language_options ==
    [name : {"English"}, code : {"eng"}] \cup [name : {"Spanish"}, code : {"spa"}]
    \cup [name : {"French"}, code : {"fra"}] \cup [name : {"Tamil"}, code : {"tam"}]
    \cup [name : {"Auto-detect"}, code : {"auto"}]

\* The names the model's requests choose among.
LanguageNames == {"English", "Spanish", "Auto-detect"}

LanguageCode(name) == (CHOOSE o \in ocr_language_options : o.name = name).code

\* What one page (or one image) can come out of the OCR engine as.
OcrTexts == { <<>>, <<" ", "\n">>, <<"o", "c", "r", "\n">> }

\* The environment's answer to one OCR of a PDF: the rasterizer raises, the
\* OCR engine raises, or each page image is recognized.
OcrPdfAnswers ==
    {[kind |-> "raster_error"], [kind |-> "ocr_error"]}
    \cup {[kind |-> "ok", texts |-> <<a, b>>] : a \in OcrTexts, b \in {<<>>, <<"2">>}}

\* The environment's answer to one OCR of an image.
OcrImageAnswers ==
    {[kind |-> "open_error"], [kind |-> "ocr_error"]}
    \cup {[kind |-> "ok", texts |-> <<a>>] : a \in OcrTexts}

-----------------------------------------------------------------------------
(* st.cache_data / st.cache_resource: a set of [key, val] *)

\* A decorator that never finds an entry: the body runs on every call.
CachedNever(cache, key) == FALSE

Cached(cache, key) == \E e \in cache : e.key = key
CacheGet(cache, key) == (CHOOSE e \in cache : e.key = key).val
CachePut(cache, key, val) == cache \cup {[key |-> key, val |-> val]}

-----------------------------------------------------------------------------
(* Extraction, lines 27-84 *)

Invocation(engine, file_bytes, lang) == [engine |-> engine, bytes |-> file_bytes, lang |-> lang]

\* A threshold test that accepts exactly 50 characters as well.
PdfTextAcceptedAt50(text) == Len(strip(text)) >= TextLayerThreshold

\* line 33: len(text.strip()) > 50
PdfTextAccepted(text) == Len(strip(text)) > TextLayerThreshold

\* line 31: "".join(page texts), in page order
PagesText(pages) == concat(pages)

\* The body of _extract_text_from_pdf (lines 29-35).
extract_text_from_pdf_body(file_bytes) ==
    LET doc == PdfReader(file_bytes) IN
    IF ~doc.ok THEN PyNone
    ELSE LET text == PagesText(doc.pages) IN
         IF PdfTextAccepted(text) THEN PyText(text) ELSE PyNone

\* The body of _ocr_pdf (lines 39-43) / _ocr_image (lines 47-51), given the
\* engines' answer.
ocr_body(answer) ==
    IF answer.kind = "ok" THEN PyText(concat(answer.texts)) ELSE PyNone

\* The engine invocations one uncached _ocr_pdf makes; each is logged with
\* the arguments (file_bytes, lang) of the memoized call it ran in.
OcrPdfInvocations(file_bytes, lang, answer) ==
    <<Invocation("rasterizer", file_bytes, lang)>>
    \o (IF answer.kind = "raster_error" THEN <<>>
        ELSE IF answer.kind = "ocr_error" THEN <<Invocation("ocr", file_bytes, lang)>>
        ELSE [i \in 1..Len(answer.texts) |-> Invocation("ocr", file_bytes, lang)])

OcrImageInvocations(file_bytes, lang, answer) ==
    <<Invocation("image_open", file_bytes, lang)>>
    \o (IF answer.kind = "open_error" THEN <<>> ELSE <<Invocation("ocr", file_bytes, lang)>>)

\* A mapping that passes every tag on as it is.
ocr_lang_code_unmapped(ocr_language) == ocr_language

\* line 61 (the codes of the model are lower case)
ocr_lang_code(ocr_language) == IF ocr_language # "auto" THEN ocr_language ELSE "eng"

\* An OCR test that takes any non-empty text, blank or not.
OcrAcceptedUnstripped(text) == Truthy(text)

\* lines 72, 78: text and text.strip()
OcrAccepted(text) == Truthy(text) /\ strip(text.chars) # <<>>

\* line 75: file_type.startswith("image/")
IsImageType(file_type) == file_type \in {"image/png", "image/jpeg"}

\* extract_text_from_document (lines 53-84) on the caches c = [pdf, ocr_pdf,
\* ocr_image], with the engines' answers should OCR run: the text returned
\* ("" is the failure signal), the messages shown, the caches afterwards and
\* the engine invocations made.
extract_text_from_document(f, ocr_language, c, pdf_answer, image_answer) ==
    LET lang == ocr_lang_code(ocr_language)
        fail(msgs, c2, log) ==
            [text |-> PyText(<<>>), ui |-> msgs, c |-> c2, log |-> log]
    IN
    IF ~f.readable
    THEN fail({"Failed to read uploaded file. Please ensure it is not corrupted."}, c, <<>>)
    ELSE IF f.type = "application/pdf"
    THEN LET hit1 == Cached(c.pdf, f.bytes)
             text1 == IF hit1 THEN CacheGet(c.pdf, f.bytes)
                      ELSE extract_text_from_pdf_body(f.bytes)
             c1 == [c EXCEPT !.pdf = CachePut(c.pdf, f.bytes, text1)]
             log1 == IF hit1 THEN <<>> ELSE <<Invocation("pdf_reader", f.bytes, "")>>
         IN IF Truthy(text1)
            THEN [text |-> text1, ui |-> {}, c |-> c1, log |-> log1]
            ELSE LET key == <<f.bytes, lang>>
                     hit2 == Cached(c.ocr_pdf, key)
                     text2 == IF hit2 THEN CacheGet(c.ocr_pdf, key)
                              ELSE ocr_body(pdf_answer)
                     c2 == [c1 EXCEPT !.ocr_pdf = CachePut(c.ocr_pdf, key, text2)]
                     log2 == log1 \o (IF hit2 THEN <<>>
                                      ELSE OcrPdfInvocations(f.bytes, lang, pdf_answer))
                 IN IF OcrAccepted(text2)
                    THEN [text |-> text2, ui |-> {}, c |-> c2, log |-> log2]
                    ELSE fail({"Text extraction failed."}, c2, log2)
    ELSE IF IsImageType(f.type)
    THEN LET key == <<f.bytes, lang>>
             hit == Cached(c.ocr_image, key)
             text == IF hit THEN CacheGet(c.ocr_image, key) ELSE ocr_body(image_answer)
             c2 == [c EXCEPT !.ocr_image = CachePut(c.ocr_image, key, text)]
             log == IF hit THEN <<>> ELSE OcrImageInvocations(f.bytes, lang, image_answer)
         IN IF OcrAccepted(text)
            THEN [text |-> text, ui |-> {}, c |-> c2, log |-> log]
            ELSE fail({"Text extraction failed."}, c2, log)
    ELSE fail({"Unsupported file type."}, c, <<>>)


-----------------------------------------------------------------------------
(* The Model Client's configuration and transport *)

\* os.environ: GEMINI_API_KEY unset, set to the empty string, or set to a key.
Environments ==
    {[set |-> FALSE], [set |-> TRUE, v |-> ""], [set |-> TRUE, v |-> "user-key"]}

\* line 12: os.environ.get("GEMINI_API_KEY", "AIzaSy..."): the key written
\* in the source is the default.
GEMINI_API_KEY == IF environ.set THEN environ.v ELSE "AIzaSy-source-default"

DefaultMaxRetries == 4

MockRecord ==
    PyDict(<< [key |-> "document_title", val |-> PyStr("Mock Document")],
              [key |-> "author", val |-> PyStr("N/A")],
              [key |-> "date", val |-> PyStr("N/A")],
              [key |-> "summary", val |-> PyStr("Mock summary for offline demo.")],
              [key |-> "key_points",
               val |-> PyList(<<PyStr("Works without API key"),
                                PyStr("Set GEMINI_API_KEY for live results")>>)] >>)

\* lines 93-97: json.dumps(the mock dict, indent=2)
MockPayload == PyText(json_dumps(MockRecord))

\* Texts the model can answer with (the text of the first content fragment).
GoodRecord ==
    PyDict(<< [key |-> "document_title", val |-> PyStr("T")],
              [key |-> "author", val |-> PyStr("N/A")],
              [key |-> "summary", val |-> PyStr("S")],
              [key |-> "key_points", val |-> PyList(<<PyStr("k1")>>)] >>)

ModelOutputs ==
    { json_dumps(GoodRecord),
      <<Word("Here"), Ws(" "), Word("it"), Ws(" "), Word("is:"), Ws("\n")>>
          \o json_dumps(GoodRecord) \o <<Ws("\n")>>,
      <<P("{"), S("document_title"), P(":"), S("T"), P("}")>>,
      <<P("{"), S("document_title"), P(":"), S("T"), P(","), S("summary"), P(":"),
        L("null"), P(","), S("key_points"), P(":"), N("5"), P("}")>>,
      <<P("["), S("x"), P("]")>>,
      <<Word("Sorry")>>,
      <<>> }

\* What one requests.post can end as (lines 109-112):
\*   network_error  requests.post raises (connection, timeout)
\*   http_error     a non-2xx status: raise_for_status raises
\*   invalid_json   2xx, the body is not JSON: resp.json() raises
\*   bad_shape      2xx, JSON whose "candidates" is an empty list: [0] raises
\*   no_parts       2xx, JSON without a content fragment
\*   ok             2xx, a content fragment with its text
TransportOutcomes ==
    {[o |-> k, text |-> <<>>] :
        k \in {"network_error", "http_error", "invalid_json", "bad_shape", "no_parts"}}
    \cup {[o |-> "ok", text |-> t] : t \in remote_texts}

\* line 116: the outcomes caught as requests.exceptions.RequestException.
\* The error resp.json() raises is one in requests >= 2.27
\* (requests.exceptions.JSONDecodeError) and a plain ValueError before; the
\* repository pins no version.
IsRequestException(o) ==
    \/ o.o \in {"network_error", "http_error"}
    \/ o.o = "invalid_json" /\ json_error_is_request_exception

\* A wait that grows linearly.
BackoffWaitLinear(n) == 2 * n

\* line 118: wait = 2 ** attempt
BackoffWait(n) == 2 ^ n

\* A loop that runs once more than max_retries.
LoopContinuesOnceMore(n, max_retries) == n <= max_retries

\* line 105: for attempt in range(max_retries)
LoopContinues(n, max_retries) == n < max_retries

\* A loop that sleeps after every failed attempt, the last one too.
RetriesLeftAlways(n, max_retries) == TRUE

\* line 117: attempt < max_retries - 1
RetriesLeft(n, max_retries) == n < max_retries - 1

Schema == "OBJECT{document_title,author,date,summary,key_points}"

Prompt(prompt_text, doc_language) == [text |-> prompt_text, lang |-> doc_language]

-----------------------------------------------------------------------------
(* call_gemini_api, lines 89-123 *)

ReturnPc == IF caller = "agent" THEN "parse" ELSE "returned"

\* A return that keeps successes in the cache but not the failure None.
ApiReturnForgetsFailure(val) ==
    /\ raw' = val
    /\ cache_api' = IF val = PyNone THEN cache_api ELSE CachePut(cache_api, call_args, val)
    /\ pc' = ReturnPc

\* The call returns val: st.cache_resource keeps it under the arguments.
ApiReturn(val) ==
    /\ raw' = val
    /\ cache_api' = CachePut(cache_api, call_args, val)
    /\ pc' = ReturnPc

\* A tally (a set of [key, n]): how often something was done per key.
Count(tally, key) == IF \E e \in tally : e.key = key
                     THEN (CHOOSE e \in tally : e.key = key).n ELSE 0
Tally(tally, key) ==
    {e \in tally : e.key # key} \cup {[key |-> key, n |-> Count(tally, key) + 1]}

\* Entry: the cache of the decorator, then lines 92-105.
CallStart ==
    /\ pc = "call"
    /\ http_log' = <<>>
    /\ sleeps' = <<>>
    /\ attempt' = 0
    /\ IF Cached(cache_api, call_args)
       THEN /\ raw' = CacheGet(cache_api, call_args)
            /\ pc' = ReturnPc
            /\ UNCHANGED << cache_api, ui >>
       ELSE IF GEMINI_API_KEY = ""
       THEN /\ ApiReturn(MockPayload)
            /\ ui' = ui \cup {"GEMINI_API_KEY not set. Using mock response."}
       ELSE IF LoopContinues(0, call_args.max_retries)
       THEN /\ pc' = "attempt"
            /\ UNCHANGED << raw, cache_api, ui >>
       ELSE /\ ApiReturn(PyNone)           \* line 123
            /\ UNCHANGED ui
    /\ UNCHANGED << environ, json_error_is_request_exception, remote_texts,
                    requests_done, uploaded_file, selected_language_name,
                    extracted_text, structured_data, summary_md, escaped,
                    cache_pdf, cache_ocr_pdf, cache_ocr_image, cache_agent,
                    engine_log, agent_args, call_args, caller, api_calls,
                    extractions, posts_made, fn_in, fn_arg, fn_out >>

\* One pass of the loop body, lines 106-122, with the transport's outcome.
Attempt ==
    /\ pc = "attempt"
    /\ posts_made' = Tally(posts_made, call_args)
    /\ \E o \in TransportOutcomes :
        /\ http_log' = Append(http_log, o)
        /\ IF o.o = "ok"
           THEN /\ ApiReturn(PyText(o.text))               \* line 114
                /\ UNCHANGED << ui, sleeps, attempt >>
           ELSE IF o.o = "no_parts"
           THEN /\ ApiReturn(PyNone)                       \* line 115
                /\ ui' = ui \cup {"Unexpected API response"}
                /\ UNCHANGED << sleeps, attempt >>
           ELSE IF IsRequestException(o)
           THEN IF RetriesLeft(attempt, call_args.max_retries)
                THEN /\ sleeps' = Append(sleeps, BackoffWait(attempt))
                     /\ attempt' = attempt + 1
                     /\ IF LoopContinues(attempt + 1, call_args.max_retries)
                        THEN pc' = "attempt" /\ UNCHANGED << raw, cache_api >>
                        ELSE ApiReturn(PyNone)             \* line 123
                     /\ UNCHANGED ui
                ELSE /\ ApiReturn(PyNone)                  \* line 120
                     /\ ui' = ui \cup {"Gemini API failed after retries."}
                     /\ UNCHANGED << sleeps, attempt >>
           ELSE /\ ApiReturn(PyNone)                       \* line 122
                /\ ui' = ui \cup {"Unexpected error calling Gemini."}
                /\ UNCHANGED << sleeps, attempt >>
    /\ UNCHANGED << environ, json_error_is_request_exception, remote_texts,
                    requests_done, uploaded_file, selected_language_name,
                    extracted_text, structured_data, summary_md, escaped,
                    cache_pdf, cache_ocr_pdf, cache_ocr_image, cache_agent,
                    engine_log, agent_args, call_args, caller, api_calls,
                    extractions, fn_in, fn_arg, fn_out >>


-----------------------------------------------------------------------------
(* document_to_json_agent, lines 147-177 *)

clientVars == << attempt, http_log, sleeps, raw >>
fnVars == << fn_in, fn_arg, fn_out >>
constVars == << environ, json_error_is_request_exception, remote_texts >>
extractVars == << cache_pdf, cache_ocr_pdf, cache_ocr_image, engine_log >>
historyVars == << extractions, posts_made >>

\* line 174: if data
AgentAccepts(data) == Truthy(data)

\* Entry: the cache of the decorator, then lines 149-172 up to the call of
\* call_gemini_api (with the default max_retries).
AgentCall ==
    /\ pc = "agent"
    /\ LET key == [doc_text |-> extracted_text, doc_language |-> selected_language_name] IN
       /\ agent_args' = key
       /\ IF Cached(cache_agent, key)
          THEN /\ structured_data' = CacheGet(cache_agent, key)
               /\ pc' = "render"
               /\ UNCHANGED << call_args, caller, api_calls, ui, cache_agent >>
          ELSE IF ~Truthy(extracted_text)
          THEN /\ structured_data' = PyNone            \* line 149
               /\ cache_agent' = CachePut(cache_agent, key, PyNone)
               /\ ui' = ui \cup {"No text for JSON extraction."}
               /\ pc' = "render"
               /\ UNCHANGED << call_args, caller, api_calls >>
          ELSE /\ call_args' =
                    [prompt |-> Prompt(_truncate_text_by_lines(extracted_text.chars,
                                                               DefaultMaxChars),
                                       selected_language_name),
                     response_schema |-> Schema,
                     max_retries |-> DefaultMaxRetries]
               /\ caller' = "agent"
               /\ api_calls' = api_calls + 1
               /\ pc' = "call"
               /\ UNCHANGED << structured_data, ui, cache_agent >>
    /\ UNCHANGED << constVars, requests_done, uploaded_file,
                    selected_language_name, extracted_text, summary_md, escaped,
                    extractVars, cache_api, clientVars, historyVars, fnVars >>

\* Lines 173-177, after call_gemini_api returned raw.
AgentParse ==
    /\ pc = "parse"
    /\ LET data == _coerce_json(raw)
           result == IF AgentAccepts(data.val) THEN data.val ELSE PyNone
       IN /\ structured_data' = result
          /\ cache_agent' = CachePut(cache_agent, agent_args, result)
          /\ ui' = ui \cup (IF data.warned THEN {"Failed to parse JSON"} ELSE {})
                      \cup (IF AgentAccepts(data.val) THEN {}
                            ELSE {"Failed to parse model output as JSON."})
    /\ pc' = "render"
    /\ UNCHANGED << constVars, requests_done, uploaded_file,
                    selected_language_name, extracted_text, summary_md, escaped,
                    extractVars, cache_api, agent_args, call_args, caller,
                    api_calls, clientVars, historyVars, fnVars >>

\* call_gemini_api called on its own (not through the agent) with any
\* max_retries: its signature, line 90.
DirectPrompt == Prompt(<<"d", "o", "c">>, "English")

DirectCall ==
    /\ pc \in {"idle", "returned"}
    /\ api_calls < MaxCalls
    /\ \E m \in 0..MaxRetriesArg :
         call_args' = [prompt |-> DirectPrompt, response_schema |-> Schema,
                       max_retries |-> m]
    /\ caller' = "direct"
    /\ api_calls' = api_calls + 1
    /\ pc' = "call"
    /\ UNCHANGED << constVars, requests_done, uploaded_file,
                    selected_language_name, extracted_text, structured_data,
                    summary_md, ui, escaped, extractVars, cache_agent, cache_api,
                    agent_args, clientVars, historyVars, fnVars >>

-----------------------------------------------------------------------------
(* The pipeline driver, lines 889-914 *)

\* A file (one of files) is uploaded and the script runs: lines 886-890.
StartRun(files) ==
    /\ requests_done' = requests_done + 1
    /\ \E f \in files : uploaded_file' = f
    /\ \E n \in LanguageNames : selected_language_name' = n
    /\ extracted_text' = PyNone
    /\ structured_data' = PyNone
    /\ summary_md' = PyNone
    /\ ui' = {}
    /\ escaped' = FALSE
    /\ api_calls' = 0
    /\ pc' = "extract"
    /\ UNCHANGED << constVars, extractVars, cache_agent, cache_api, agent_args,
                    call_args, caller, clientVars, historyVars, fnVars >>

\* The first upload of a fresh process.
Upload ==
    /\ pc = "idle"
    /\ StartRun(Uploads)

\* The files of a session: a PDF with a text layer, a scanned PDF, an image.
SessionUploads ==
    {f \in Uploads : f.readable /\ f.bytes \in {"pdf_text", "pdf_scan", "img_1"}}

\* An upload in a session of several: each upload reruns the script in the
\* same process, so the caches of the decorators outlive the run.
UploadInSession ==
    /\ pc \in {"idle", "done"}
    /\ requests_done < MaxRuns
    /\ StartRun(SessionUploads)

\* The answers an engine can give to the upload f: all of them when f is of
\* the type that leads to the engine, and one (never asked for) otherwise.
AnswersAsked(f, file_type, answers) ==
    IF f.type = file_type THEN answers ELSE {CHOOSE a \in answers : a.kind # "ok"}

\* Lines 891-893 and 913-914.
Extract ==
    /\ pc = "extract"
    /\ \E pdf_answer \in AnswersAsked(uploaded_file, "application/pdf", OcrPdfAnswers),
          image_answer \in AnswersAsked(uploaded_file, "image/png", OcrImageAnswers) :
        LET r == extract_text_from_document(
                    uploaded_file, LanguageCode(selected_language_name),
                    [pdf |-> cache_pdf, ocr_pdf |-> cache_ocr_pdf,
                     ocr_image |-> cache_ocr_image],
                    pdf_answer, image_answer)
        IN /\ extracted_text' = r.text
           /\ cache_pdf' = r.c.pdf
           /\ cache_ocr_pdf' = r.c.ocr_pdf
           /\ cache_ocr_image' = r.c.ocr_image
           /\ engine_log' = engine_log \o
                [i \in 1..Len(r.log) |-> [run |-> requests_done, inv |-> r.log[i]]]
           /\ extractions' = extractions \cup
                {[file |-> uploaded_file,
                  ocr_language |-> LanguageCode(selected_language_name),
                  text |-> r.text]}
           /\ IF Truthy(r.text)
              THEN pc' = "agent" /\ ui' = ui \cup r.ui
              ELSE /\ pc' = "done"
                   /\ ui' = ui \cup r.ui \cup {"Failed to extract readable text."}
    /\ UNCHANGED << constVars, requests_done, uploaded_file,
                    selected_language_name, structured_data, summary_md, escaped,
                    cache_agent, cache_api, agent_args, call_args, caller,
                    api_calls, clientVars, posts_made, fnVars >>

\* Lines 897-912: the result is shown, or the failure.
Render ==
    /\ pc = "render"
    /\ IF Truthy(structured_data)
       THEN LET r == json_to_readable(structured_data) IN
            IF r.ok
            THEN summary_md' = PyList(r.lines) /\ UNCHANGED << escaped, ui >>
            ELSE escaped' = TRUE /\ UNCHANGED << summary_md, ui >>
       ELSE /\ ui' = ui \cup {"Failed to generate structured JSON."}
            /\ UNCHANGED << summary_md, escaped >>
    /\ pc' = "done"
    /\ UNCHANGED << constVars, requests_done, uploaded_file,
                    selected_language_name, extracted_text, structured_data,
                    extractVars, cache_agent, cache_api, agent_args, call_args,
                    caller, api_calls, clientVars, historyVars, fnVars >>

NoCall == [prompt |-> Prompt(<<>>, ""), response_schema |-> "", max_retries |-> 0]
NoAgentArgs == [doc_text |-> PyNone, doc_language |-> ""]

\* The state of a fresh process.
InitCommon ==
    /\ requests_done = 0
    /\ uploaded_file = NoFile
    /\ selected_language_name = "English"
    /\ extracted_text = PyNone
    /\ structured_data = PyNone
    /\ summary_md = PyNone
    /\ ui = {}
    /\ escaped = FALSE
    /\ cache_pdf = {} /\ cache_ocr_pdf = {} /\ cache_ocr_image = {}
    /\ cache_agent = {} /\ cache_api = {}
    /\ engine_log = <<>>
    /\ agent_args = NoAgentArgs
    /\ call_args = NoCall
    /\ caller = "none"
    /\ attempt = 0
    /\ http_log = <<>>
    /\ sleeps = <<>>
    /\ raw = PyNone
    /\ api_calls = 0
    /\ extractions = {}
    /\ posts_made = {}

\* The build and its environment: the key variable, and the requests
\* version (which matters only when requests are sent).
InitEnvironment ==
    /\ environ \in Environments
    /\ json_error_is_request_exception \in
          (IF environ.set /\ environ.v = "" THEN {TRUE} ELSE BOOLEAN)

NoFn == /\ fn_in = <<>> /\ fn_arg = 0 /\ fn_out = PyNone

(* One script run with an upload *)

Init ==
    /\ InitCommon
    /\ InitEnvironment
    /\ remote_texts = ModelOutputs
    /\ pc = "idle"
    /\ NoFn

Next ==
    \/ Upload
    \/ Extract
    \/ AgentCall
    \/ CallStart
    \/ Attempt
    \/ AgentParse
    \/ Render

Spec == Init /\ [][Next]_vars

(* call_gemini_api called directly, several times in one process *)

InitClient ==
    /\ InitCommon
    /\ InitEnvironment
    /\ environ.set
    /\ remote_texts = {json_dumps(GoodRecord), <<>>}
    /\ pc = "idle"
    /\ NoFn

NextClient ==
    \/ DirectCall
    \/ CallStart
    \/ Attempt

SpecClient == InitClient /\ [][NextClient]_vars

(* Several uploads in one process, with no key configured (mock mode) *)

InitSession ==
    /\ InitCommon
    /\ environ = [set |-> TRUE, v |-> ""]
    /\ json_error_is_request_exception = TRUE
    /\ remote_texts = {}
    /\ pc = "idle"
    /\ NoFn

NextSession ==
    \/ UploadInSession
    \/ Extract
    \/ AgentCall
    \/ CallStart
    \/ AgentParse
    \/ Render

SpecSession == InitSession /\ [][NextSession]_vars

(* _truncate_text_by_lines on its own *)

TextAlphabet == {"a", "b", "\n", "\r"}

RECURSIVE TextsUpTo(_)
TextsUpTo(n) ==
    IF n = 0 THEN { <<>> }
    ELSE LET shorter == TextsUpTo(n - 1) IN
         shorter \cup {Append(t, c) : t \in {x \in shorter : Len(x) = n - 1},
                                      c \in TextAlphabet}

pipelineVars == << requests_done, uploaded_file, selected_language_name,
                   extracted_text, structured_data, summary_md, ui, escaped,
                   extractVars, cache_agent, cache_api, agent_args, call_args,
                   caller, api_calls, clientVars, historyVars >>

InitTrunc ==
    /\ InitCommon
    /\ environ = [set |-> FALSE]
    /\ json_error_is_request_exception = TRUE
    /\ remote_texts = {}
    /\ pc = "fn_called"
    /\ fn_in \in TextsUpTo(MaxTextLen)
    /\ fn_arg \in 0..MaxBudget
    /\ fn_out = PyNone

Truncate ==
    /\ pc = "fn_called"
    /\ fn_out' = PyText(_truncate_text_by_lines(fn_in, fn_arg))
    /\ pc' = "fn_returned"
    /\ UNCHANGED << constVars, pipelineVars, fn_in, fn_arg >>

NextTrunc == Truncate

SpecTrunc == InitTrunc /\ [][NextTrunc]_vars

(* _coerce_json on its own: prose, then a JSON text, then a trailer *)

ProseAlphabet == {Word("Here"), Ws(" "), P("{"), P("}")}

RECURSIVE ProsesUpTo(_)
ProsesUpTo(n) ==
    IF n = 0 THEN { <<>> }
    ELSE LET shorter == ProsesUpTo(n - 1) IN
         shorter \cup {Append(t, c) : t \in {x \in shorter : Len(x) = n - 1},
                                      c \in ProseAlphabet}

NestedRecord ==
    PyDict(<< [key |-> "summary", val |-> PyStr("S")],
              [key |-> "meta", val |-> PyDict(<< [key |-> "n", val |-> PyNum("1")] >>)],
              [key |-> "key_points", val |-> PyList(<<PyDict(<<>>), PyNone>>)] >>)

\* JSON objects, other JSON values, and texts that are not JSON.
JsonBodies ==
    { json_dumps(GoodRecord),
      json_dumps(NestedRecord),
      json_dumps(MockRecord),
      <<P("{"), P("}")>>,
      <<P("{"), S("a"), P(":"), N("1"), P(","), S("a"), P(":"), N("2"), P("}")>>,
      <<P("["), P("{"), S("a"), P(":"), N("1"), P("}"), P("]")>>,
      <<N("5")>>,
      <<P("{"), S("a"), P(":"), N("1"), P(","), P("}")>>,
      <<P("{"), S("a"), P(":"), N("1")>>,
      <<P("{"), S("a"), N("1"), P("}")>> }

Trailers == { <<>>, <<Ws("\n")>>, <<Ws(" "), Word("Thanks")>>, <<P("}")>> }

InitJson ==
    /\ InitCommon
    /\ environ = [set |-> FALSE]
    /\ json_error_is_request_exception = TRUE
    /\ remote_texts = {}
    /\ pc = "fn_called"
    /\ \E prose \in ProsesUpTo(MaxProseLen), body \in JsonBodies, trailer \in Trailers :
          /\ fn_in = prose \o body \o trailer
          /\ fn_arg = [prose |-> prose, body |-> body, trailer |-> trailer]
    /\ fn_out = PyNone

Coerce ==
    /\ pc = "fn_called"
    /\ fn_out' = _coerce_json(PyText(fn_in)).val
    /\ pc' = "fn_returned"
    /\ UNCHANGED << constVars, pipelineVars, fn_in, fn_arg >>

NextJson == Coerce

SpecJson == InitJson /\ [][NextJson]_vars

(* json_to_readable on its own: records of strings and a list of strings *)

Absent == [has |-> FALSE]
Given(v) == [has |-> TRUE, v |-> v]
Optional(values) == {Absent} \cup {Given(v) : v \in values}
Member(key, opt) == IF opt.has THEN << [key |-> key, val |-> opt.v] >> ELSE <<>>

PointLists ==
    { PyList(<<>>), PyList(<<PyStr("k1")>>), PyList(<<PyStr("k1"), PyStr("k2")>>) }

RecordShapes ==
    [document_title : Optional({PyStr(""), PyStr("T")}),
     author         : Optional({PyStr("N/A")}),
     date           : Optional({PyStr("D")}),
     summary        : Optional({PyStr(""), PyStr("S")}),
     key_points     : Optional(PointLists)]

RecordOf(shape) ==
    PyDict(Member("document_title", shape.document_title)
           \o Member("author", shape.author)
           \o Member("date", shape.date)
           \o Member("summary", shape.summary)
           \o Member("key_points", shape.key_points))

InitPresent ==
    /\ InitCommon
    /\ environ = [set |-> FALSE]
    /\ json_error_is_request_exception = TRUE
    /\ remote_texts = {}
    /\ pc = "fn_called"
    /\ \/ \E shape \in RecordShapes : fn_arg = shape /\ fn_in = RecordOf(shape)
       \/ fn_arg = Absent /\ fn_in = PyNone
    /\ fn_out = PyNone

Present ==
    /\ pc = "fn_called"
    /\ fn_out' = json_to_readable(fn_in)
    /\ pc' = "fn_returned"
    /\ UNCHANGED << constVars, pipelineVars, fn_in, fn_arg >>

NextPresent == Present

SpecPresent == InitPresent /\ [][NextPresent]_vars

-----------------------------------------------------------------------------
(* Properties *)

IsTransportFailure(e) == e.o \in {"network_error", "http_error"}
AllTransportFailures(log) == \A i \in 1..Len(log) : IsTransportFailure(log[i])
PowersOfTwo(n) == [i \in 1..n |-> 2 ^ (i - 1)]
InOrAfterCall == pc \in {"attempt", "returned"}

\* C1: in one call_gemini_api call, after N < max_retries transport failures
\* (network error, non-2xx) the client has slept 2^0, ..., 2^(N-1) and makes
\* attempt N+1; when that attempt carries a content fragment the call has
\* returned its text after exactly N+1 attempts, with exactly those sleeps.
C1_RetryThenSuccess ==
    InOrAfterCall =>
      \A n \in 0..Len(http_log) :
        (n < call_args.max_retries /\ AllTransportFailures(SubSeq(http_log, 1, n))) =>
          /\ (Len(http_log) = n /\ n >= 1) =>
                (pc = "attempt" /\ attempt = n /\ sleeps = PowersOfTwo(n))
          /\ (Len(http_log) > n /\ http_log[n + 1].o = "ok") =>
                /\ Len(http_log) = n + 1
                /\ pc = "returned"
                /\ raw = PyText(http_log[n + 1].text)
                /\ sleeps = PowersOfTwo(n)

C1_Witness ==
    /\ pc = "returned"
    /\ call_args.max_retries = 4
    /\ Len(http_log) = 4
    /\ AllTransportFailures(SubSeq(http_log, 1, 3))
    /\ http_log[4].o = "ok"
    /\ raw = PyText(json_dumps(GoodRecord))
    /\ sleeps = <<1, 2, 4>>

\* C2: a call makes at most max_retries HTTP attempts; when the transport
\* has failed on every one of them the call has returned None after exactly
\* max_retries attempts, and no attempt is pending once max_retries are made.
C2_Exhaustion ==
    InOrAfterCall =>
      /\ Len(http_log) <= call_args.max_retries
      /\ pc = "attempt" => Len(http_log) < call_args.max_retries
      /\ (http_log # <<>> /\ AllTransportFailures(http_log)) =>
            IF Len(http_log) = call_args.max_retries
            THEN pc = "returned" /\ raw = PyNone
            ELSE pc = "attempt"

C2_Witness ==
    /\ pc = "returned"
    /\ call_args.max_retries = 4
    /\ Len(http_log) = 4
    /\ AllTransportFailures(http_log)
    /\ raw = PyNone

ThisRun(engines) ==
    {i \in 1..Len(engine_log) :
        engine_log[i].run = requests_done /\ engine_log[i].inv.engine \in engines}

Extracted == pc \notin {"idle", "extract", "fn_called", "fn_returned"}

UploadLang == ocr_lang_code(LanguageCode(selected_language_name))

\* C3: for a PDF whose text layer, joined over the pages in page order, has
\* more than 50 characters once stripped, extract_text_from_document returns
\* exactly that (unstripped) text and runs neither the rasterizer nor OCR; a
\* text layer of 50 or fewer stripped characters makes the direct step
\* return None, and the extractor goes on to OCR.
C3_DirectPdfText ==
    (Extracted /\ uploaded_file.type = "application/pdf" /\ uploaded_file.readable
       /\ PdfReader(uploaded_file.bytes).ok) =>
      LET text == concat(PdfReader(uploaded_file.bytes).pages) IN
      IF Len(strip(text)) > 50
      THEN /\ extracted_text = PyText(text)
           /\ ThisRun({"rasterizer", "ocr", "image_open"}) = {}
      ELSE /\ CacheGet(cache_pdf, uploaded_file.bytes) = PyNone
           /\ Cached(cache_ocr_pdf, <<uploaded_file.bytes, UploadLang>>)
           /\ ThisRun({"rasterizer"}) # {}

C3_Witness ==
    /\ pc = "agent"
    /\ uploaded_file.bytes = "pdf_51" /\ uploaded_file.readable
    /\ Len(extracted_text.chars) = 54
    /\ Len(strip(extracted_text.chars)) = 51
    /\ extracted_text.chars[1] = "\n" /\ extracted_text.chars[27] = "b"
    /\ ThisRun({"pdf_reader"}) # {}
    /\ ThisRun({"rasterizer", "ocr"}) = {}

BlankOrNone(v) == v.t = "None" \/ strip(v.chars) = <<>>

\* Every extraction path open to the upload yielded nothing or whitespace.
AllPathsBlank ==
    IF uploaded_file.type = "application/pdf"
    THEN /\ LET doc == PdfReader(uploaded_file.bytes) IN
              ~doc.ok \/ strip(concat(doc.pages)) = <<>>
         /\ Cached(cache_ocr_pdf, <<uploaded_file.bytes, UploadLang>>)
         /\ BlankOrNone(CacheGet(cache_ocr_pdf, <<uploaded_file.bytes, UploadLang>>))
    ELSE /\ IsImageType(uploaded_file.type)
         /\ Cached(cache_ocr_image, <<uploaded_file.bytes, UploadLang>>)
         /\ BlankOrNone(CacheGet(cache_ocr_image, <<uploaded_file.bytes, UploadLang>>))

\* C4: extract_text_from_document returns either "" (failure) or a text that
\* is not blank; when every path yielded only whitespace or nothing it
\* returns "", the run ends with the failure shown, and the structuring
\* agent is only ever given text that is not blank.
C4_NoBlankSuccess ==
    /\ Extracted =>
         /\ extracted_text.t = "text"
         /\ Truthy(extracted_text) => strip(extracted_text.chars) # <<>>
         /\ (uploaded_file.readable /\ AllPathsBlank) =>
               /\ extracted_text = PyText(<<>>)
               /\ pc = "done"
               /\ "Failed to extract readable text." \in ui
               /\ api_calls = 0
    /\ agent_args # NoAgentArgs =>
         (agent_args.doc_text.t = "text" /\ strip(agent_args.doc_text.chars) # <<>>)

C4_Witness ==
    /\ pc = "done"
    /\ uploaded_file.bytes = "pdf_scan"
    /\ CacheGet(cache_ocr_pdf, <<"pdf_scan", UploadLang>>) = PyText(<<" ", "\n">>)
    /\ extracted_text = PyText(<<>>)
    /\ "Text extraction failed." \in ui

\* C5: for a text longer than max_chars, _truncate_text_by_lines returns the
\* first k whole lines of the text (k >= 0) joined by newlines, of length at
\* most max_chars, followed by the truncation marker.
C5_Truncation ==
    (pc = "fn_returned" /\ Len(fn_in) > fn_arg) =>
      LET lines == splitlines(fn_in)
          out == fn_out.chars
          m == Len(TruncationMarker)
      IN /\ Len(out) >= m
         /\ SubSeq(out, Len(out) - m + 1, Len(out)) = TruncationMarker
         /\ Len(out) <= fn_arg + m
         /\ \E k \in 0..Len(lines) :
               SubSeq(out, 1, Len(out) - m) = joinNL(SubSeq(lines, 1, k))

C5_Witness ==
    /\ pc = "fn_returned"
    /\ fn_in = <<"a", "\n", "b", "b", "\n">>
    /\ fn_arg = 3
    /\ fn_out = PyText(<<"a">> \o TruncationMarker)

Mandatory == {"document_title", "summary", "key_points"}
IsValidSummary(v) == v.t = "dict" /\ \A k \in Mandatory : HasKey(v.m, k)

\* C6: document_to_json_agent returns a value other than None only when it
\* is a JSON object holding document_title, summary and key_points.
C6_OnlyValidRecords ==
    (pc \in {"render", "done"} /\ structured_data # PyNone) =>
        IsValidSummary(structured_data)

IsJsonObject(lexemes) == json_loads(lexemes).ok /\ json_loads(lexemes).val.t = "dict"

ProseThenObject ==
    /\ pc = "fn_returned"
    /\ IsJsonObject(fn_arg.body)
    /\ fn_arg.trailer = <<>>

\* C7 as stated: whatever the leading prose, _coerce_json returns the
\* object that follows it.
C7_AnyProse == ProseThenObject => fn_out = json_loads(fn_arg.body).val

\* C7 as amended: when the leading prose holds no "{", _coerce_json returns
\* the object that follows it, as parsed alone.
C7_ProseWithoutBrace ==
    (ProseThenObject /\ \A i \in 1..Len(fn_arg.prose) : fn_arg.prose[i] # P("{")) =>
        fn_out = json_loads(fn_arg.body).val

C7_Witness ==
    /\ pc = "fn_returned"
    /\ fn_arg.prose = <<Word("Here"), P("}")>>
    /\ fn_arg.body = json_dumps(NestedRecord)
    /\ fn_arg.trailer = <<>>
    /\ fn_out = NestedRecord

NoCredentialConfigured == ~environ.set \/ environ.v = ""

MockRendering ==
    PyList(<< Line("###", PyStr("Mock Document")),
              Line("**Author:**", PyStr("N/A")),
              Line("**Date:**", PyStr("N/A")),
              Line("text", PyStr("\n#### Summary")),
              Line("text", PyStr("Mock summary for offline demo.")),
              Line("text", PyStr("\n#### Key Points")),
              Line("-", PyStr("Works without API key")),
              Line("-", PyStr("Set GEMINI_API_KEY for live results")) >>)

\* C8: with no credential configured, no HTTP attempt is made and nothing
\* sleeps, call_gemini_api returns the mock payload, the agent returns the
\* mock record and the presenter renders it.
C8_MockMode ==
    NoCredentialConfigured =>
      /\ pc # "attempt" /\ http_log = <<>> /\ sleeps = <<>>
      /\ pc \in {"parse", "render", "done"} /\ api_calls > 0 => raw = MockPayload
      /\ pc \in {"render", "done"} /\ api_calls > 0 => structured_data = MockRecord
      /\ pc = "done" /\ api_calls > 0 => summary_md = MockRendering

IsUnexpectedResponse(e) == e.o \in {"no_parts", "invalid_json", "bad_shape"}

\* C9: a 2xx response without a content fragment, or a malformed one, ends
\* the call at once with None: it is the last attempt, and only network
\* errors and non-2xx statuses are followed by a sleep and a retry.
C9_UnexpectedIsTerminal ==
    InOrAfterCall =>
      /\ \A i \in 1..Len(http_log) :
            IsUnexpectedResponse(http_log[i]) =>
               (i = Len(http_log) /\ pc = "returned" /\ raw = PyNone)
      /\ Len(sleeps) <= Cardinality({i \in 1..Len(http_log) : IsTransportFailure(http_log[i])})

FailureMessages ==
    { "Failed to extract readable text.", "Failed to generate structured JSON." }

\* C10: no exception leaves a stage, and a finished run has either rendered
\* a summary or shown a failure message and no result.
C10_NoFailureIsFatal ==
    /\ ~escaped
    /\ pc = "done" =>
         \/ summary_md # PyNone /\ ui \cap FailureMessages = {}
         \/ summary_md = PyNone /\ ui \cap FailureMessages # {}

IsPresent(opt) == opt.has /\ Truthy(opt.v)
Placeholder == PyStr("U+2014")
SummaryHeading == Line("text", PyStr("\n#### Summary"))
PointsHeading == Line("text", PyStr("\n#### Key Points"))
Labeled(label, opt) == IF IsPresent(opt) THEN << Line(label, opt.v) >> ELSE <<>>

\* No record at all, or a record without any member.
IsAbsentRecord(v) == v = PyNone \/ v = PyDict(<<>>)

\* The rendering the presenter is described to give for a record.
DescribedRendering(shape) ==
    Labeled("###", shape.document_title)
    \o Labeled("**Author:**", shape.author)
    \o Labeled("**Date:**", shape.date)
    \o << SummaryHeading,
          Line("text", IF IsPresent(shape.summary) THEN shape.summary.v ELSE Placeholder) >>
    \o (IF IsPresent(shape.key_points)
        THEN << PointsHeading >>
             \o [i \in 1..Len(shape.key_points.v.items) |->
                    Line("-", shape.key_points.v.items[i])]
        ELSE <<>>)

\* C11: json_to_readable never fails; an absent or empty record renders as the fixed
\* "No data." message; a record renders as its title heading, author line
\* and date line (each only when present), then always the Summary heading
\* followed by the summary, or by the placeholder when the summary is
\* missing or the empty string, then the bulleted key points unless the list
\* is empty; equal inputs give equal renderings.
C11_Rendering ==
    pc = "fn_returned" =>
      /\ fn_out.ok
      /\ fn_out = json_to_readable(fn_in)
      /\ fn_out.lines = IF IsAbsentRecord(fn_in)
                        THEN << Line("text", PyStr("No data.")) >>
                        ELSE DescribedRendering(fn_arg)

\* The language an OCR call is keyed by, for the code the user selected.
KeyLang(code) == IF code = "auto" THEN "eng" ELSE code
LogOf(engine, file_bytes, lang) ==
    {i \in 1..Len(engine_log) :
        engine_log[i].inv = Invocation(engine, file_bytes, lang)}
Opened(engine, file_bytes, lang) == LogOf(engine, file_bytes, lang) # {}
DirectText(file_bytes) == CacheGet(cache_pdf, file_bytes)

\* C12: over the uploads of one process, the PDF reader opens the same
\* bytes at most once, the rasterizer and the image opener run at most once
\* per (bytes, language), and all OCR of one (bytes, language) happens in a
\* single run; extractions of the same file with the same language return
\* the same text; and every extraction was served from work done for its
\* own key (its bytes for the reader, its bytes and language for OCR).
C12_ExtractionMemoized ==
    /\ \A i, j \in 1..Len(engine_log) :
          engine_log[i].inv = engine_log[j].inv =>
             /\ engine_log[i].run = engine_log[j].run
             /\ engine_log[i].inv.engine # "ocr" => i = j
    /\ \A g, h \in extractions :
          (g.file = h.file /\ g.ocr_language = h.ocr_language) => g.text = h.text
    /\ \A h \in extractions :
          LET lang == KeyLang(h.ocr_language) IN
          /\ (h.file.readable /\ h.file.type = "application/pdf") =>
                /\ Opened("pdf_reader", h.file.bytes, "")
                /\ h.text = DirectText(h.file.bytes)
                   \/ /\ ~Truthy(DirectText(h.file.bytes))
                      /\ Opened("rasterizer", h.file.bytes, lang)
                      /\ LET text == CacheGet(cache_ocr_pdf, <<h.file.bytes, lang>>)
                         IN \/ h.text = text
                            \/ /\ ~Truthy(h.text)
                               /\ (text = PyNone \/ strip(text.chars) = <<>>)
          /\ (h.file.readable /\ h.file.type = "image/png") =>
                /\ Opened("image_open", h.file.bytes, lang)
                /\ LogOf("pdf_reader", h.file.bytes, "") = {}

\* The second run uploads the scan of the first run again, with the same
\* language: its text is returned with no engine invoked in the second run.
C12_Witness ==
    /\ requests_done = 2
    /\ pc = "agent"
    /\ uploaded_file.bytes = "pdf_scan"
    /\ selected_language_name = "Spanish"
    /\ Truthy(extracted_text)
    /\ Cardinality(extractions) = 1
    /\ engine_log # <<>>
    /\ \A i \in 1..Len(engine_log) : engine_log[i].run = 1

RECURSIVE Sum(_)
Sum(seq) == IF seq = <<>> THEN 0 ELSE Head(seq) + Sum(Tail(seq))

\* A call with the default max_retries has returned and every attempt it
\* made met a transport failure.
DefaultCallExhausted ==
    /\ pc = "returned"
    /\ call_args.max_retries = DefaultMaxRetries
    /\ http_log # <<>>
    /\ AllTransportFailures(http_log)

\* C13 as stated: with the default of 4 attempts and a transport that
\* always fails, one call sleeps 1, 2, 4, 8 (15 in total) before it reports
\* the terminal failure.
C13_SleepsFifteen ==
    DefaultCallExhausted =>
      /\ raw = PyNone
      /\ sleeps = <<1, 2, 4, 8>>
      /\ Sum(sleeps) = 15

\* C13, amended: with the default of 4 attempts and a transport that always
\* fails, one call makes 4 attempts and sleeps only between them: 1, 2, 4
\* (7 in total), with no sleep after the fourth attempt, before it reports
\* the terminal failure.
C13_SleepsSeven ==
    DefaultCallExhausted =>
      /\ raw = PyNone
      /\ Len(http_log) = 4
      /\ sleeps = <<1, 2, 4>>
      /\ Sum(sleeps) = 7

C13_Witness ==
    /\ DefaultCallExhausted
    /\ Len(http_log) = DefaultMaxRetries
    /\ Sum(sleeps) = 7
    /\ "Gemini API failed after retries." \in ui

ExtractorSucceeded == Truthy(extracted_text)
AgentReturned == pc \in {"render", "done"} /\ ExtractorSucceeded
InModelClient == pc \in {"call", "attempt", "parse"}
PresenterInvoked == summary_md # PyNone \/ escaped
IsRecord(v) == v.t = "dict"

\* C14: in one script run the extractor runs once; the agent runs only
\* after the extractor returned text; the model client runs only inside the
\* agent, exactly once per agent call, also when the output failed to
\* parse; the presenter is invoked only after the agent returned a record;
\* after a failed extraction no request is sent and nothing is structured,
\* and after a failed structuring nothing is presented.
C14_ForwardOnly ==
    /\ Cardinality(extractions) <= 1
    /\ pc \in {"agent", "call", "attempt", "parse", "render"} => ExtractorSucceeded
    /\ InModelClient => (caller = "agent" /\ api_calls = 1)
    /\ api_calls = IF InModelClient \/ AgentReturned THEN 1 ELSE 0
    /\ Len(http_log) <= DefaultMaxRetries
    /\ "Failed to parse model output as JSON." \in ui => (AgentReturned /\ api_calls = 1)
    /\ PresenterInvoked =>
          (pc = "done" /\ AgentReturned /\ IsRecord(structured_data))
    /\ (pc = "done" /\ ~ExtractorSucceeded) =>
          /\ api_calls = 0 /\ http_log = <<>> /\ posts_made = {}
          /\ structured_data = PyNone
          /\ ~PresenterInvoked
    /\ (pc = "done" /\ ExtractorSucceeded /\ structured_data = PyNone) =>
          ~PresenterInvoked

AllEngines == {"pdf_reader", "rasterizer", "image_open", "ocr"}
HasTextLayer(file_bytes) ==
    /\ PdfReader(file_bytes).ok
    /\ Len(strip(concat(PdfReader(file_bytes).pages))) > 50
ExtractionFailed ==
    /\ ~Truthy(extracted_text)
    /\ pc = "done"
    /\ "Failed to extract readable text." \in ui
    /\ api_calls = 0

\* C15: once the extractor has run on a readable upload: for a PDF the
\* rasterizer (PDF OCR) has run exactly when the text layer gave no text,
\* and when OCR gave nothing or only blanks the extraction has failed; for
\* an image only the image OCR has run, never the PDF reader or the
\* rasterizer; for any other type no engine has run and the extraction has
\* failed; every OCR call carries the selected language code, with "eng"
\* in place of "auto", and none carries "auto".
C15_FallbackByType ==
    (Extracted /\ uploaded_file.readable) =>
      /\ uploaded_file.type = "application/pdf" =>
            /\ ThisRun({"pdf_reader"}) # {}
            /\ ThisRun({"image_open"}) = {}
            /\ ThisRun({"rasterizer"}) # {} <=> ~HasTextLayer(uploaded_file.bytes)
            /\ ThisRun({"ocr"}) # {} => ThisRun({"rasterizer"}) # {}
            /\ ~HasTextLayer(uploaded_file.bytes) =>
                  LET key == <<uploaded_file.bytes,
                               KeyLang(LanguageCode(selected_language_name))>>
                      text == CacheGet(cache_ocr_pdf, key)
                  IN /\ Cached(cache_ocr_pdf, key)
                     /\ IF BlankOrNone(text) THEN ExtractionFailed
                        ELSE extracted_text = text
      /\ uploaded_file.type = "image/png" =>
            /\ ThisRun({"pdf_reader", "rasterizer"}) = {}
            /\ ThisRun({"image_open"}) # {}
      /\ uploaded_file.type \notin {"application/pdf", "image/png"} =>
            /\ ThisRun(AllEngines) = {}
            /\ ExtractionFailed
            /\ "Unsupported file type." \in ui
      /\ \A i \in ThisRun({"ocr"}) :
            /\ engine_log[i].inv.lang = KeyLang(LanguageCode(selected_language_name))
            /\ engine_log[i].inv.lang # "auto"

\* A scan uploaded with "Auto-detect": the text layer gave nothing, the
\* pages were rasterized and recognized with "eng", and the text came back.
C15_Witness ==
    /\ pc = "agent"
    /\ uploaded_file.bytes = "pdf_scan"
    /\ selected_language_name = "Auto-detect"
    /\ ThisRun({"pdf_reader"}) # {} /\ ThisRun({"rasterizer"}) # {}
    /\ ThisRun({"ocr"}) # {}
    /\ \A i \in ThisRun({"ocr"}) : engine_log[i].inv.lang = "eng"
    /\ extracted_text = PyText(<<"o", "c", "r", "\n", "2">>)

\* C16: call_gemini_api keeps one value per (prompt, schema, max_retries),
\* the one its first call with these arguments returned, None included, and
\* every call returns the value kept for its arguments; requests are posted
\* only by a call whose arguments have no value yet, so that a later call
\* with the same arguments posts nothing, and over all calls of the process
\* no more than max_retries requests are posted for any one arguments.
C16_FailureMemoized ==
    /\ \A d, e \in cache_api : d.key = e.key => d.val = e.val
    /\ pc = "returned" =>
          (Cached(cache_api, call_args) /\ raw = CacheGet(cache_api, call_args))
    /\ pc = "attempt" => ~Cached(cache_api, call_args)
    /\ (InOrAfterCall /\ http_log # <<>>) =>
          Count(posts_made, call_args) = Len(http_log)
    /\ \A t \in posts_made : t.n <= t.key.max_retries

\* The first call met a failing transport four times and returned None;
\* the second call with the same arguments returned None and posted nothing.
C16_Witness ==
    /\ pc = "returned"
    /\ api_calls = 2
    /\ call_args.max_retries = DefaultMaxRetries
    /\ posts_made = {[key |-> call_args, n |-> 4]}
    /\ http_log = <<>> /\ sleeps = <<>>
    /\ raw = PyNone
    /\ "Gemini API failed after retries." \in ui

====
